---- MODULE Spec2Model ----
(***************************************************************************)
(* Model of HDRProcessingInvocation (src/hdr_processing.py): one call of   *)
(* invoke(), which resolves the input images, runs create_hdr_image() and  *)
(* stores the result through the host's image service.                     *)
(*                                                                         *)
(* Rasters are kept small: an image is its size and a row-major sequence   *)
(* of pixels, a pixel is a triple of channel values.  Floating-point       *)
(* tonemap output is kept in thousandths (1000 stands for 1.0).            *)
(***************************************************************************)
EXTENDS Integers, Sequences, FiniteSets, TLC

\* ---------------------------------------------------------------- bounds
MaxImages == 2
MaxTimes == 2

\* image sizes <<width, height>> the retrieval service may hold
Sizes == {<<0, 1>>, <<1, 1>>, <<2, 1>>}
\* primary / secondary colours used for the input pixels (red, yellow)
Colours == {<<255, 0, 0>>, <<255, 255, 0>>}
\* normalised tonemap output per channel, in thousandths: -0.5, 0.5, 1.5
TonemapVals == {-500, 500, 1500}
\* horizontal shifts AlignMTB may compute for a non-pivot image
Shifts == {0, 1}

\* ---------------------------------------------------------------- values
Missing == [kind |-> "missing", w |-> 0, h |-> 0, px |-> <<>>]
GreyImage == [kind |-> "L", w |-> 1, h |-> 1, px |-> << <<255>> >>]
RGBImages ==
  UNION {{[kind |-> "RGB", w |-> s[1], h |-> s[2], px |-> p] :
            p \in [1..(s[1] * s[2]) -> Colours]} : s \in Sizes}
\* what the image-retrieval service holds behind an image name
ServiceImages == {Missing, GreyImage} \cup RGBImages

NoImage == [kind |-> "none", w |-> 0, h |-> 0, px |-> <<>>]
NoArray == [dtype |-> "none", rows |-> 0, cols |-> 0, px |-> <<>>]
NoRecord == [image_name |-> 0 - 1, width |-> 0 - 1, height |-> 0 - 1]
\* ImageOutput() built without arguments
EmptyOutput == [image_name |-> 0, width |-> 0, height |-> 0]

VARIABLES
  input_images,      \* self.input_images, as the service resolves them
  exposure_times,    \* self.exposure_times
  pc,                \* position in invoke / create_hdr_image
  input_pil_images,  \* images fetched so far (line 48)
  images_cv,         \* BGR arrays (line 24), aligned in place (line 30)
  hdr_image,         \* radiance map (line 33)
  ldr_image,         \* tonemapped image, float then uint8 (lines 36-37)
  hdr_result,        \* PIL image returned by create_hdr_image (line 39)
  storage,           \* images held by the image-storage service
  output_image,      \* record returned by images.create (line 51)
  result,            \* ImageOutput returned by invoke
  outcome,           \* "running", "returned" or "raised"
  exc,               \* exception raised inside the try block
  log,               \* logger.error messages
  done,              \* stages completed, in order
  getCalls,          \* calls of images.get_pil_image
  createCalls        \* calls of images.create

vars == <<input_images, exposure_times, pc, input_pil_images, images_cv,
          hdr_image, ldr_image, hdr_result, storage, output_image, result,
          outcome, exc, log, done, getCalls, createCalls>>

inputs == <<input_images, exposure_times>>
arrays == <<images_cv, hdr_image, ldr_image, hdr_result>>
service == <<storage, output_image, createCalls>>
ending == <<result, outcome, exc, log>>

\* ---------------------------------------------------------------- helpers
Min(a, b) == IF a < b THEN a ELSE b

\* np.array(image): a PIL image of size (w, h) becomes an array of shape
\* (h, w, channels)
np_array(image) ==
  [dtype |-> "uint8", rows |-> image.h, cols |-> image.w, px |-> image.px]

\* Image.fromarray(arr): an array of shape (rows, cols, 3) becomes a PIL
\* image of size (cols, rows)
Image_fromarray_swapped(arr) ==
  [kind |-> "RGB", w |-> arr.rows, h |-> arr.cols, px |-> arr.px]

Image_fromarray(arr) ==
  [kind |-> "RGB", w |-> arr.cols, h |-> arr.rows, px |-> arr.px]

\* cv2.cvtColor accepts a non-empty array with three channels
Convertible(image) == image.kind = "RGB" /\ image.w * image.h > 0

\* cv2.COLOR_RGB2BGR on one pixel
RGB2BGR_forgotten(p) == p

RGB2BGR(p) == <<p[3], p[2], p[1]>>

\* cv2.COLOR_BGR2RGB on one pixel
BGR2RGB(p) == <<p[3], p[2], p[1]>>

cvtColor_RGB2BGR(arr) == [arr EXCEPT !.px = [i \in DOMAIN arr.px |-> RGB2BGR(arr.px[i])]]
cvtColor_BGR2RGB(arr) == [arr EXCEPT !.px = [i \in DOMAIN arr.px |-> BGR2RGB(arr.px[i])]]

\* len(images_cv) != len(exposure_times)
LengthsDiffer_onlyFewer(cv, times) == Len(cv) < Len(times)

LengthsDiffer(cv, times) == Len(cv) # Len(times)

\* AlignMTB / MergeDebevec need a non-empty list of arrays of one size
SameDimensions(cv) ==
  /\ Len(cv) > 0
  /\ \A i \in 1..Len(cv) : cv[i].rows = cv[1].rows /\ cv[i].cols = cv[1].cols

\* the shift AlignMTB applies to one array: s columns to the right, the
\* uncovered columns filled with zero
ShiftMat(arr, s) ==
  [arr EXCEPT !.px =
     [i \in DOMAIN arr.px |->
        LET c == ((i - 1) % arr.cols) + 1
        IN  IF c - s >= 1 THEN arr.px[i - s] ELSE <<0, 0, 0>>]]

\* np.clip(x * 255, 0, 255).astype(np.uint8) on one channel value x, given
\* in thousandths
ClipScale_noClip(x) == (x * 255) \div 1000

ClipScale(x) ==
  LET scaled == x * 255
      clipped == IF scaled < 0 THEN 0
                 ELSE IF scaled > 255 * 1000 THEN 255 * 1000 ELSE scaled
  IN  (clipped \div 1000) % 256

ClipScalePixel(p) == <<ClipScale(p[1]), ClipScale(p[2]), ClipScale(p[3])>>

\* the statement order of create_hdr_image and of the try block of invoke
NextStage_checkAfterAlign(stage) ==
  CASE stage = "get" -> "cvt"
    [] stage = "cvt" -> "align"
    [] stage = "align" -> "check"
    [] stage = "check" -> "merge"
    [] stage = "merge" -> "tonemap"
    [] stage = "tonemap" -> "clip"
    [] stage = "clip" -> "cvt_back"
    [] stage = "cvt_back" -> "create"
    [] stage = "create" -> "return"
    [] OTHER -> "done"

NextStage_noAlign(stage) ==
  CASE stage = "get" -> "cvt"
    [] stage = "cvt" -> "check"
    [] stage = "check" -> "merge"
    [] stage = "align" -> "merge"
    [] stage = "merge" -> "tonemap"
    [] stage = "tonemap" -> "clip"
    [] stage = "clip" -> "cvt_back"
    [] stage = "cvt_back" -> "create"
    [] stage = "create" -> "return"
    [] OTHER -> "done"

NextStage(stage) ==
  CASE stage = "get" -> "cvt"
    [] stage = "cvt" -> "check"
    [] stage = "check" -> "align"
    [] stage = "align" -> "merge"
    [] stage = "merge" -> "tonemap"
    [] stage = "tonemap" -> "clip"
    [] stage = "clip" -> "cvt_back"
    [] stage = "cvt_back" -> "create"
    [] stage = "create" -> "return"
    [] OTHER -> "done"

\* the two except clauses of invoke
ExceptHandler_reraiseAll(e) ==
  /\ exc' = e
  /\ pc' = "done"
  /\ log' = Append(log, "Unexpected error")
  /\ outcome' = "raised"
  /\ result' = NoRecord

ExceptHandler_swallowAll(e) ==
  /\ exc' = e
  /\ pc' = "done"
  /\ log' = Append(log, "File not found")
  /\ outcome' = "returned"
  /\ result' = EmptyOutput

ExceptHandler(e) ==
  /\ exc' = e
  /\ pc' = "done"
  /\ IF e = "FileNotFoundError"
       THEN /\ log' = Append(log, "File not found")
            /\ outcome' = "returned"
            /\ result' = EmptyOutput
       ELSE /\ log' = Append(log, "Unexpected error")
            /\ outcome' = "raised"
            /\ result' = NoRecord

\* ---------------------------------------------------------------- Init
Init ==
  /\ input_images \in UNION {[1..n -> ServiceImages] : n \in 0..MaxImages}
  /\ exposure_times \in {[i \in 1..n |-> i] : n \in 0..MaxTimes}
  /\ pc = "get"
  /\ input_pil_images = <<>>
  /\ images_cv = <<>>
  /\ hdr_image = NoArray
  /\ ldr_image = NoArray
  /\ hdr_result = NoImage
  /\ storage = <<>>
  /\ output_image = NoRecord
  /\ result = NoRecord
  /\ outcome = "running"
  /\ exc = "none"
  /\ log = <<>>
  /\ done = <<>>
  /\ getCalls = 0
  /\ createCalls = 0

\* ---------------------------------------------------------------- actions
\* line 48: get_pil_image returns the next image
GetPilImage ==
  /\ pc = "get"
  /\ Len(input_pil_images) < Len(input_images)
  /\ LET image == input_images[Len(input_pil_images) + 1]
     IN  /\ image.kind # "missing"
         /\ input_pil_images' = Append(input_pil_images, image)
  /\ getCalls' = getCalls + 1
  /\ UNCHANGED <<inputs, pc, arrays, service, ending, done>>

\* a variant that drops an unresolved image and goes on
GetPilImageNotFound_skip ==
  /\ pc = "get"
  /\ Len(input_pil_images) < Len(input_images)
  /\ input_images[Len(input_pil_images) + 1].kind = "missing"
  /\ input_pil_images' = Append(input_pil_images, GreyImage)
  /\ getCalls' = getCalls + 1
  /\ UNCHANGED <<inputs, pc, arrays, service, ending, done>>

\* line 48: get_pil_image raises FileNotFoundError; lines 65-67
GetPilImageNotFound ==
  /\ pc = "get"
  /\ Len(input_pil_images) < Len(input_images)
  /\ input_images[Len(input_pil_images) + 1].kind = "missing"
  /\ getCalls' = getCalls + 1
  /\ ExceptHandler("FileNotFoundError")
  /\ UNCHANGED <<inputs, input_pil_images, arrays, service, done>>

\* line 49: every image is resolved, create_hdr_image is called
CallCreateHdrImage ==
  /\ pc = "get"
  /\ Len(input_pil_images) = Len(input_images)
  /\ pc' = NextStage("get")
  /\ done' = Append(done, "resolve")
  /\ UNCHANGED <<inputs, input_pil_images, arrays, service, ending, getCalls>>

\* line 24: every image is converted from RGB to BGR
CvtColorRGB2BGR ==
  /\ pc = "cvt"
  /\ \A i \in 1..Len(input_pil_images) : Convertible(input_pil_images[i])
  /\ images_cv' = [i \in 1..Len(input_pil_images) |->
                     cvtColor_RGB2BGR(np_array(input_pil_images[i]))]
  /\ pc' = NextStage("cvt")
  /\ done' = Append(done, "convert")
  /\ UNCHANGED <<inputs, input_pil_images, hdr_image, ldr_image, hdr_result,
                 service, ending, getCalls>>

\* line 24: cv2.cvtColor rejects an image; lines 68-70
CvtColorError ==
  /\ pc = "cvt"
  /\ \E i \in 1..Len(input_pil_images) : ~Convertible(input_pil_images[i])
  /\ ExceptHandler("cv2.error")
  /\ UNCHANGED <<inputs, input_pil_images, arrays, service, done, getCalls>>

\* line 26: the lengths agree
CheckLengths ==
  /\ pc = "check"
  /\ ~LengthsDiffer(images_cv, exposure_times)
  /\ pc' = NextStage("check")
  /\ done' = Append(done, "validate")
  /\ UNCHANGED <<inputs, input_pil_images, arrays, service, ending, getCalls>>

\* lines 26-27: ValueError; lines 68-70
CheckLengthsMismatch ==
  /\ pc = "check"
  /\ LengthsDiffer(images_cv, exposure_times)
  /\ ExceptHandler("ValueError")
  /\ UNCHANGED <<inputs, input_pil_images, arrays, service, done, getCalls>>

\* lines 29-30: the arrays are aligned in place around the pivot
AlignMTB ==
  /\ pc = "align"
  /\ SameDimensions(images_cv)
  /\ LET pivot == (Len(images_cv) \div 2) + 1
     IN  \E sh \in [1..Len(images_cv) -> Shifts] :
           /\ sh[pivot] = 0
           /\ images_cv' = [i \in 1..Len(images_cv) |->
                              ShiftMat(images_cv[i], Min(sh[i], images_cv[i].cols))]
  /\ pc' = NextStage("align")
  /\ done' = Append(done, "align")
  /\ UNCHANGED <<inputs, input_pil_images, hdr_image, ldr_image, hdr_result,
                 service, ending, getCalls>>

\* line 30: the library rejects an empty list or arrays of different sizes
AlignMTBError ==
  /\ pc = "align"
  /\ ~SameDimensions(images_cv)
  /\ ExceptHandler("cv2.error")
  /\ UNCHANGED <<inputs, input_pil_images, arrays, service, done, getCalls>>

\* lines 32-33: the radiance map has the size of the aligned arrays
MergeDebevec ==
  /\ pc = "merge"
  /\ SameDimensions(images_cv)
  /\ hdr_image' = [dtype |-> "float32", rows |-> images_cv[1].rows,
                   cols |-> images_cv[1].cols, px |-> <<>>]
  /\ pc' = NextStage("merge")
  /\ done' = Append(done, "merge")
  /\ UNCHANGED <<inputs, input_pil_images, images_cv, ldr_image, hdr_result,
                 service, ending, getCalls>>

\* line 33: the library fails
MergeDebevecError ==
  /\ pc = "merge"
  /\ ExceptHandler("cv2.error")
  /\ UNCHANGED <<inputs, input_pil_images, arrays, service, done, getCalls>>

\* lines 35-36: tonemap with gamma 2.2; the values are the library's
Tonemap ==
  /\ pc = "tonemap"
  /\ \E p \in [1..(hdr_image.rows * hdr_image.cols) ->
                 TonemapVals \X TonemapVals \X TonemapVals] :
       ldr_image' = [dtype |-> "float32", rows |-> hdr_image.rows,
                     cols |-> hdr_image.cols, px |-> p]
  /\ pc' = NextStage("tonemap")
  /\ done' = Append(done, "tonemap")
  /\ UNCHANGED <<inputs, input_pil_images, images_cv, hdr_image, hdr_result,
                 service, ending, getCalls>>

\* line 36: the library fails
TonemapError ==
  /\ pc = "tonemap"
  /\ ExceptHandler("cv2.error")
  /\ UNCHANGED <<inputs, input_pil_images, arrays, service, done, getCalls>>

\* line 37: scale by 255, clip to [0, 255], convert to uint8
Clip ==
  /\ pc = "clip"
  /\ ldr_image' = [ldr_image EXCEPT
                     !.dtype = "uint8",
                     !.px = [i \in DOMAIN ldr_image.px |->
                               ClipScalePixel(ldr_image.px[i])]]
  /\ pc' = NextStage("clip")
  /\ done' = Append(done, "clamp")
  /\ UNCHANGED <<inputs, input_pil_images, images_cv, hdr_image, hdr_result,
                 service, ending, getCalls>>

\* lines 39-40: back to RGB, wrapped as a PIL image and returned
CvtColorBGR2RGB ==
  /\ pc = "cvt_back"
  /\ hdr_result' = Image_fromarray(cvtColor_BGR2RGB(ldr_image))
  /\ pc' = NextStage("cvt_back")
  /\ done' = Append(done, "convert_back")
  /\ UNCHANGED <<inputs, input_pil_images, images_cv, hdr_image, ldr_image,
                 service, ending, getCalls>>

\* a variant that calls create a second time
ImagesCreate_twice ==
  /\ pc = "create"
  /\ storage' = Append(Append(storage, hdr_result), hdr_result)
  /\ output_image' = [image_name |-> Len(storage) + 2,
                      width |-> hdr_result.w, height |-> hdr_result.h]
  /\ createCalls' = createCalls + 2
  /\ pc' = NextStage("create")
  /\ done' = Append(done, "store")
  /\ UNCHANGED <<inputs, input_pil_images, arrays, ending, getCalls>>

\* lines 51-58: the storage service stores the image and names it
ImagesCreate ==
  /\ pc = "create"
  /\ storage' = Append(storage, hdr_result)
  /\ output_image' = [image_name |-> Len(storage) + 1,
                      width |-> hdr_result.w, height |-> hdr_result.h]
  /\ createCalls' = createCalls + 1
  /\ pc' = NextStage("create")
  /\ done' = Append(done, "store")
  /\ UNCHANGED <<inputs, input_pil_images, arrays, ending, getCalls>>

\* lines 51-58: the storage service fails, having stored the image or not
ImagesCreateError ==
  /\ pc = "create"
  /\ storage' \in {storage, Append(storage, hdr_result)}
  /\ createCalls' = createCalls + 1
  /\ ExceptHandler("StorageError")
  /\ UNCHANGED <<inputs, input_pil_images, arrays, output_image, done, getCalls>>

\* lines 60-64: the output record is returned
ReturnOutput ==
  /\ pc = "return"
  /\ result' = [image_name |-> output_image.image_name,
                width |-> output_image.width, height |-> output_image.height]
  /\ outcome' = "returned"
  /\ pc' = NextStage("return")
  /\ done' = Append(done, "return")
  /\ UNCHANGED <<inputs, input_pil_images, arrays, service, exc, log, getCalls>>

Next ==
  \/ GetPilImage
  \/ GetPilImageNotFound
  \/ CallCreateHdrImage
  \/ CvtColorRGB2BGR
  \/ CvtColorError
  \/ CheckLengths
  \/ CheckLengthsMismatch
  \/ AlignMTB
  \/ AlignMTBError
  \/ MergeDebevec
  \/ MergeDebevecError
  \/ Tonemap
  \/ TonemapError
  \/ Clip
  \/ CvtColorBGR2RGB
  \/ ImagesCreate
  \/ ImagesCreateError
  \/ ReturnOutput

Spec == Init /\ [][Next]_vars

\* ---------------------------------------------------------------- properties
Stages == <<"resolve", "convert", "validate", "align", "merge", "tonemap",
            "clamp", "convert_back", "store", "return">>

Finished == pc = "done"
Mismatch == Len(input_images) # Len(exposure_times)
AnyMissing == \E i \in 1..Len(input_images) : input_images[i].kind = "missing"
AllUsable == \A i \in 1..Len(input_images) : Convertible(input_images[i])
FirstMissing ==
  CHOOSE i \in 1..Len(input_images) :
    /\ input_images[i].kind = "missing"
    /\ \A j \in 1..(i - 1) : input_images[j].kind # "missing"
Completed(stage) == \E i \in 1..Len(done) : done[i] = stage
ReturnedStored == outcome = "returned" /\ result # EmptyOutput

\* C1 (as stated): whenever the number of images differs from the number of
\* exposure times, invoke ends by raising the validation error and create
\* is never called.
C1_AlwaysValidationError ==
  Finished /\ Mismatch =>
    outcome = "raised" /\ exc = "ValueError" /\ createCalls = 0 /\ storage = <<>>

\* C1 (amended): with differing lengths create is never called, nothing is
\* stored and no stored-image record is returned; the validation error is
\* raised whenever every input image is resolved and colour-converted.
C1_MismatchStoresNothing ==
  /\ Mismatch => createCalls = 0 /\ storage = <<>> /\ ~ReturnedStored
  /\ Finished /\ Mismatch /\ AllUsable => outcome = "raised" /\ exc = "ValueError"

C1_Witness ==
  /\ Finished /\ Mismatch /\ AllUsable
  /\ Len(input_images) = 2 /\ Len(exposure_times) = 1
  /\ exc = "ValueError"

\* C2: if some input image cannot be resolved, invoke logs one error and
\* returns the empty output record without raising, and nothing is stored.
C2_NotFoundReturnsEmpty ==
  /\ AnyMissing => createCalls = 0 /\ storage = <<>>
  /\ Finished /\ AnyMissing =>
       /\ outcome = "returned"
       /\ result = EmptyOutput
       /\ exc = "FileNotFoundError"
       /\ log = <<"File not found">>

C2_Witness ==
  /\ Finished /\ Len(input_images) = 2
  /\ input_images[1].kind = "RGB" /\ input_images[2].kind = "missing"
  /\ result = EmptyOutput

C4_NothingBeforeValidation ==
  exc = "ValueError" =>
    \A s \in {"convert", "align", "merge", "tonemap", "clamp", "store"} : ~Completed(s)

\* C4 (amended): when the validation error is raised, the images have been
\* resolved and colour-converted, and none of alignment, merge, tonemap,
\* clamp and storage has been executed.
C4_ValidationBeforeAlignment ==
  exc = "ValueError" =>
    /\ done = <<"resolve", "convert">>
    /\ hdr_image = NoArray /\ ldr_image = NoArray /\ hdr_result = NoImage
    /\ createCalls = 0 /\ storage = <<>>

C4_Witness ==
  /\ exc = "ValueError" /\ Len(images_cv) = 2 /\ Len(exposure_times) = 0
  /\ SameDimensions(images_cv)

\* C5: an invocation that returns a stored-image record has called create
\* exactly once; create is never called more than once; an invocation that
\* raises has stored nothing unless create itself failed.
C5_CreateAtMostOnce ==
  /\ createCalls <= 1 /\ Len(storage) <= createCalls
  /\ ReturnedStored => createCalls = 1 /\ Len(storage) = 1
  /\ outcome = "raised" /\ exc # "StorageError" => createCalls = 0 /\ storage = <<>>

C5_Witness == Finished /\ ReturnedStored /\ createCalls = 1 /\ Len(input_images) = 2

\* C6: with equal-length non-empty lists and no collaborator failure, invoke
\* returns the name, width and height of the newly stored image, both
\* positive and equal to the dimensions of every input raster.
C6_OutputMatchesInput ==
  /\ Finished
  /\ Len(input_images) = Len(exposure_times)
  /\ Len(input_images) > 0
  /\ exc = "none"
  => /\ outcome = "returned"
     /\ Len(storage) = 1
     /\ result.image_name = Len(storage)
     /\ result.width = storage[Len(storage)].w
     /\ result.height = storage[Len(storage)].h
     /\ result.width > 0 /\ result.height > 0
     /\ \A i \in 1..Len(input_images) :
          input_images[i].w = result.width /\ input_images[i].h = result.height

C6_Witness ==
  /\ Finished /\ exc = "none" /\ Len(input_images) = 2
  /\ result.width = 2 /\ result.height = 1

C8_RoundTrip ==
  pc = "check" =>
    /\ Len(images_cv) = Len(input_pil_images)
    /\ \A i \in 1..Len(images_cv) :
         Image_fromarray(cvtColor_BGR2RGB(images_cv[i])) = input_pil_images[i]

C8_Witness ==
  /\ pc = "check" /\ Len(images_cv) = 2
  /\ input_pil_images[1].px = << <<255, 0, 0>>, <<255, 255, 0>> >>
  /\ images_cv[1].px = << <<0, 0, 255>>, <<0, 255, 255>> >>

\* C9: the stages complete in one fixed order, each at most once; a stored
\* result has gone through all of them, the images are all resolved before
\* conversion, and storage is reached only after alignment, merge and tonemap.
C9_StageOrder ==
  /\ Len(done) <= Len(Stages)
  /\ \A i \in 1..Len(done) : done[i] = Stages[i]
  /\ Completed("resolve") => getCalls = Len(input_images)
  /\ createCalls > 0 =>
       Completed("align") /\ Completed("merge") /\ Completed("tonemap")
  /\ ReturnedStored => done = Stages

C9_Witness == Finished /\ ReturnedStored /\ done = Stages /\ Len(input_images) = 1

\* C10: with differing lengths and an unresolved image the invocation ends on
\* the not-found path, never with the validation error, and no image after
\* the first unresolved one is fetched.
C10_NotFoundBeforeValidation ==
  /\ AnyMissing => getCalls <= FirstMissing
  /\ Finished /\ AnyMissing => getCalls = FirstMissing
  /\ Finished /\ Mismatch /\ AnyMissing =>
       /\ outcome = "returned"
       /\ result = EmptyOutput
       /\ exc = "FileNotFoundError"
       /\ Len(log) = 1

C10_Witness ==
  /\ Finished /\ Mismatch /\ Len(input_images) = 2 /\ Len(exposure_times) = 1
  /\ input_images[1].kind = "missing" /\ input_images[2].kind = "RGB"
  /\ getCalls = 1 /\ outcome = "returned"

====
